---- MODULE Spec2Model ----
(***************************************************************************)
(* Candidate-grid constraint search of the measurement-point planner:      *)
(* generateBluePoints (hooks/useBluePoints and its copy inlined in App),   *)
(* with scoreMaximin / refinePoints (utils/bluePoints) and mulberry32 /    *)
(* shuffle (utils/geometry); the caller App.generate with its busy flag    *)
(* and call counter; and the grid builder of App (xyCells, zLevels,        *)
(* candidates) with pointInPolygon and minDistToEdges2D, which has a       *)
(* specification of its own, SpecGrid.  scoreMaximin alone is SpecScore,   *)
(* buildViolationSummary alone is SpecSummary, and the history of App      *)
(* (takeSnapshot, applySnapshot, undo, redo, the snapshot and the timeout  *)
(* of generate, the edit handlers) is SpecHistory.                         *)
(*                                                                         *)
(* Units.  Coordinates are integers in centimetres; a candidate of the     *)
(* 0.1 m lattice is a multiple of 10.  key01 (toFixed(1)) is the rounding  *)
(* to the nearest 10 cm.  Distances and scores are kept in millimetres,    *)
(* rounded down: dist3D is ISqrt(100 * Dist2), so dist3D >= 1000 holds     *)
(* exactly when the distance is at least 1.0 m; the jitter rng() * 0.05 m  *)
(* is floor(rng * 50) mm.  The generator works on 32-bit words, kept as    *)
(* pairs <<hi, lo>> of 16-bit halves.                                      *)
(***************************************************************************)
EXTENDS Integers, Sequences, FiniteSets, TLC

\* ------------------------------------------------------------ 32-bit words
W16 == 65536

\* (a * b) mod 2^16 and (a * b) div 2^16 for 16-bit a, b, by bytes
MulLo16(a, b) ==
  LET a0 == a % 256
      a1 == a \div 256
      p0 == a0 * b
      p1 == a1 * b
  IN  (p0 + (p1 % 256) * 256) % W16

MulHi16(a, b) ==
  LET a0 == a % 256
      a1 == a \div 256
      p0 == a0 * b
      p1 == a1 * b
  IN  (p0 + (p1 % 256) * 256) \div W16 + p1 \div 256

\* bitwise operations on 4-bit digits, tabulated
RECURSIVE BitOp(_, _, _, _)
BitOp(op, a, b, n) ==
  IF n = 0 THEN 0
  ELSE LET x == a % 2
           y == b % 2
           bit == IF op = "xor" THEN (x + y) % 2
                  ELSE IF x + y > 0 THEN 1 ELSE 0
       IN  bit + 2 * BitOp(op, a \div 2, b \div 2, n - 1)

Xor4 == [a \in 0..15, b \in 0..15 |-> BitOp("xor", a, b, 4)]

Xor16(a, b) ==
  Xor4[a % 16, b % 16]
  + 16 * Xor4[(a \div 16) % 16, (b \div 16) % 16]
  + 256 * Xor4[(a \div 256) % 16, (b \div 256) % 16]
  + 4096 * Xor4[a \div 4096, b \div 4096]

Xor32(a, b) == <<Xor16(a[1], b[1]), Xor16(a[2], b[2])>>

\* x | m for a mask m below 2^8
OrLow(a, m) == <<a[1], (a[2] \div 256) * 256 + BitOp("or", a[2] % 256, m, 8)>>

\* x >>> n, 0 < n < 16
Pow2(n) == IF n = 7 THEN 128 ELSE IF n = 14 THEN 16384 ELSE 32768
Shr(a, n) ==
  <<a[1] \div Pow2(n), a[2] \div Pow2(n) + (a[1] % Pow2(n)) * (W16 \div Pow2(n))>>

Add32(a, b) ==
  LET lo == a[2] + b[2]
  IN  <<(a[1] + b[1] + lo \div W16) % W16, lo % W16>>

\* Math.imul: the low 32 bits of the product
Imul(a, b) ==
  <<(MulHi16(a[2], b[2]) + MulLo16(a[1], b[2]) + MulLo16(a[2], b[1])) % W16,
    MulLo16(a[2], b[2])>>

\* a small non-negative integer as a word
Word(n) == <<n \div W16, n % W16>>

\* ------------------------------------------------------------- mulberry32
\* 0x6d2b79f5
RngStep == <<27947, 31221>>

\* the generator's state after one more call
RngNext(t) == Add32(t, RngStep)

\* the word a call returns (the call's value is this word / 2^32), from the
\* state the call has just advanced to
RngWord(t) ==
  LET r1 == Imul(Xor32(t, Shr(t, 15)), OrLow(t, 1))
      r2 == Xor32(r1, Add32(r1, Imul(Xor32(r1, Shr(r1, 7)), OrLow(r1, 61))))
  IN  Xor32(r2, Shr(r2, 14))

\* Math.floor(rng() * n) for a word w and 0 < n <= 2^15
FloorMul(w, n) == (w[1] * n + (w[2] * n) \div W16) \div W16

\* the word of the n-th call from now (n >= 1) and the state after n calls
RngAfter(t, n) == Add32(t, Imul(Word(n), RngStep))
RngDraw(t, n) == RngWord(RngAfter(t, n))

\* ---------------------------------------------------------------- numbers
\* the rules, in millimetres: F-P >= 1.0 m, P-P >= 0.7 m (3D)
MIN_RED_BLUE == 1000
MIN_BLUE_BLUE == 700

\* Infinity (Math.min over no distance at all)
Infinity == 1000000000

\* key01: n.toFixed(1), as the number of tenths (n >= 0 in centimetres)
key01(n) == (n + 5) \div 10

Dist2(a, b) ==
  (a.x - b.x) * (a.x - b.x) + (a.y - b.y) * (a.y - b.y) + (a.z - b.z) * (a.z - b.z)

RECURSIVE SqrtSearch(_, _, _)
SqrtSearch(n, lo, hi) ==
  IF lo = hi THEN lo
  ELSE LET mid == (lo + hi + 1) \div 2
       IN  IF mid * mid <= n THEN SqrtSearch(n, mid, hi)
           ELSE SqrtSearch(n, lo, mid - 1)

ISqrt(n) == SqrtSearch(n, 0, 46340)

\* dist3D, in millimetres (rounded down)
dist3D(a, b) == ISqrt(100 * Dist2(a, b))

Min(a, b) == IF a <= b THEN a ELSE b

RECURSIVE MinOver(_, _)
MinOver(p, set) ==
  IF set = <<>> THEN Infinity ELSE Min(dist3D(p, Head(set)), MinOver(p, Tail(set)))

\* minDistToSet(p, set): set.reduce(min dist3D, Infinity)
minDistToSet(p, set) == MinOver(p, set)

\* --------------------------------------------------------------- sequences
RECURSIVE LexLess(_, _)
LexLess(a, b) ==
  IF a = <<>> \/ b = <<>> THEN FALSE
  ELSE IF Head(a) # Head(b) THEN Head(a) < Head(b)
  ELSE LexLess(Tail(a), Tail(b))

\* Array.prototype.sort with a numeric comparator: stable, ascending in .k
RECURSIVE InsertSorted(_, _)
InsertSorted(e, s) ==
  IF s = <<>> THEN <<e>>
  ELSE IF LexLess(e.k, Head(s).k) THEN <<e>> \o s
  ELSE <<Head(s)>> \o InsertSorted(e, Tail(s))

RECURSIVE StableSort(_)
StableSort(s) ==
  IF s = <<>> THEN <<>>
  ELSE InsertSorted(s[Len(s)], StableSort(SubSeq(s, 1, Len(s) - 1)))

Values(s) == [j \in 1..Len(s) |-> s[j].v]

\* slice(0, n)
Take(s, n) == SubSeq(s, 1, Min(n, Len(s)))

RECURSIVE SumSeq(_)
SumSeq(s) == IF s = <<>> THEN 0 ELSE Head(s) + SumSeq(Tail(s))

Range(s) == {s[j] : j \in 1..Len(s)}

\* the sorted sequence of a finite set of integers
RECURSIVE SortedSeq(_)
SortedSeq(S) ==
  IF S = {} THEN <<>>
  ELSE LET m == CHOOSE a \in S : \A b \in S : a <= b
       IN  <<m>> \o SortedSeq(S \ {m})

\* ----------------------------------------------------------------- inputs
Pt(x, y, z) == [x |-> x, y |-> y, z |-> z]

\* App: candidates = xyCells x zLevels, cell by cell
RECURSIVE Cross(_, _)
Cross(cells, zs) ==
  IF cells = <<>> THEN <<>>
  ELSE [j \in 1..Len(zs) |-> Pt(Head(cells)[1], Head(cells)[2], zs[j])]
       \o Cross(Tail(cells), zs)

\* App: byZ.get(zk) || []
byZ(cands, zk) == SelectSeq(cands, LAMBDA c : key01(c.z) = zk)

\* App: zLevelsAll, the distinct z of the candidates in ascending order
zLevelsAll(cands) == SortedSeq({cands[j].z : j \in 1..Len(cands)})

\* ------------------------------------------------------------ grid builder
\* the rules of the lattice, in centimetres: margin to every face, step
MARGIN == 50
STEP == 10

\* Math.ceil(v * 10) / 10 for v in centimetres
CeilStep(v) == ((v + STEP - 1) \div STEP) * STEP

\* the lattice that stops short of hi - MARGIN
LatticeOpen(lo, hi) ==
  LET first == CeilStep(lo + MARGIN)
      n == IF hi - MARGIN <= first THEN 0 ELSE ((hi - MARGIN - first - 1) \div STEP) + 1
  IN  [k \in 1..n |-> first + (k - 1) * STEP]

\* for (x = Math.ceil((lo + MARGIN) * 10) / 10; x <= hi - MARGIN + EPS;
\* x += STEP) push(round01(x)); EPS is below a centimetre
Lattice(lo, hi) ==
  LET first == CeilStep(lo + MARGIN)
      n == IF hi - MARGIN < first THEN 0 ELSE ((hi - MARGIN - first) \div STEP) + 1
  IN  [k \in 1..n |-> first + (k - 1) * STEP]

MinOf(S) == CHOOSE a \in S : \A b \in S : a <= b
MaxOf(S) == CHOOSE a \in S : \A b \in S : a >= b

\* the edge test with no tie rule: a point on the edge's line never counts
HitNoTie(pt, vi, vj) ==
  /\ (vi.y > pt.y) # (vj.y > pt.y)
  /\ LET dy == vj.y - vi.y
         num == (vj.x - vi.x) * (pt.y - vi.y)
         lhs == (pt.x - vi.x) * dy
     IN  IF dy > 0 THEN lhs < num ELSE lhs > num

\* hit of pointInPolygon for the edge from vj to vi:
\* (yi > pt.y) !== (yj > pt.y) &&
\* pt.x < ((xj - xi) * (pt.y - yi)) / ((yj - yi) + EPS) + xi.
\* With the division cleared: off the edge's line the EPS changes nothing at
\* centimetre resolution; on the line it makes the right side larger than
\* the exact value exactly when (xj - xi) * (pt.y - yi) is negative
Hit(pt, vi, vj) ==
  /\ (vi.y > pt.y) # (vj.y > pt.y)
  /\ LET dy == vj.y - vi.y
         num == (vj.x - vi.x) * (pt.y - vi.y)
         lhs == (pt.x - vi.x) * dy
     IN  IF lhs = num THEN num < 0
         ELSE IF dy > 0 THEN lhs < num ELSE lhs > num

\* pointInPolygon: inside flips at every hit, j runs one vertex behind i
pointInPolygon(pt, poly) ==
  LET n == Len(poly)
      hits == {i \in 1..n : Hit(pt, poly[i], poly[IF i = 1 THEN n ELSE i - 1])}
  IN  Cardinality(hits) % 2 = 1

\* the distance to the segment above MARGIN, not at it
FarFromSegmentStrict(p, a, b) ==
  LET vx == b.x - a.x
      vy == b.y - a.y
      wx == p.x - a.x
      wy == p.y - a.y
      c1 == vx * wx + vy * wy
      c2 == vx * vx + vy * vy
      cr == IF vx * wy - vy * wx < 0 THEN vy * wx - vx * wy ELSE vx * wy - vy * wx
      q == cr \div MARGIN
      r == cr % MARGIN
  IN  IF c1 <= 0 \/ c2 = 0 THEN wx * wx + wy * wy > MARGIN * MARGIN
      ELSE IF c1 >= c2
        THEN (p.x - b.x) * (p.x - b.x) + (p.y - b.y) * (p.y - b.y) > MARGIN * MARGIN
      ELSE \/ q * q > c2
           \/ q * q = c2 /\ r > 0
           \/ q * q < c2 /\ 2 * MARGIN * q * r + r * r > MARGIN * MARGIN * (c2 - q * q)

\* distPointToSegment2D(p, a, b) >= MARGIN - EPS, on squared lengths; the
\* foot of the perpendicular is used when 0 < c1 < c2, an end point otherwise
FarFromSegment(p, a, b) ==
  LET vx == b.x - a.x
      vy == b.y - a.y
      wx == p.x - a.x
      wy == p.y - a.y
      c1 == vx * wx + vy * wy
      c2 == vx * vx + vy * vy
      cr == IF vx * wy - vy * wx < 0 THEN vy * wx - vx * wy ELSE vx * wy - vy * wx
      q == cr \div MARGIN
      r == cr % MARGIN
  IN  IF c1 <= 0 \/ c2 = 0 THEN wx * wx + wy * wy >= MARGIN * MARGIN
      ELSE IF c1 >= c2
        THEN (p.x - b.x) * (p.x - b.x) + (p.y - b.y) * (p.y - b.y) >= MARGIN * MARGIN
      ELSE \/ q * q >= c2
           \/ 2 * MARGIN * q * r + r * r >= MARGIN * MARGIN * (c2 - q * q)

\* !(minDistToEdges2D(p, vertices) < MARGIN - EPS)
FarFromEdges(p, poly) ==
  \A i \in 1..Len(poly) : FarFromSegment(p, poly[i], poly[(i % Len(poly)) + 1])

\* the Z levels started at the floor
zLevelsFromFloor(alturaZ) == Lattice(0 - MARGIN, alturaZ)

\* App: zLevels, from the margin above the floor to the margin below the
\* ceiling
zLevels(alturaZ) == Lattice(0, alturaZ)

\* App: xyCells, the lattice cells of the bounding box that are inside the
\* polygon and a margin away from its edges, x by x
xyCells(vertices) ==
  LET xs == Lattice(MinOf({vertices[i].x : i \in 1..Len(vertices)}),
                    MaxOf({vertices[i].x : i \in 1..Len(vertices)}))
      ys == Lattice(MinOf({vertices[i].y : i \in 1..Len(vertices)}),
                    MaxOf({vertices[i].y : i \in 1..Len(vertices)}))
      ny == Len(ys)
      all == [k \in 1..(Len(xs) * ny) |->
               [x |-> xs[((k - 1) \div ny) + 1], y |-> ys[((k - 1) % ny) + 1]]]
  IN  SelectSeq(all, LAMBDA c : pointInPolygon(c, vertices) /\ FarFromEdges(c, vertices))

\* App: candidates, every cell at every level
candidates(vertices, alturaZ) ==
  LET cells == xyCells(vertices)
      zs == zLevels(alturaZ)
      nz == Len(zs)
  IN  [k \in 1..(Len(cells) * nz) |->
        Pt(cells[((k - 1) \div nz) + 1].x, cells[((k - 1) \div nz) + 1].y, zs[((k - 1) % nz) + 1])]

\* ----------------------------------------------------------- scoreMaximin
\* the score with 0 where nothing is there to keep a distance from
ScoreBaseZero(cand, chosen, anchors) ==
  LET dA == minDistToSet(cand, anchors \o chosen)
      dB == IF chosen # <<>> THEN minDistToSet(cand, chosen) ELSE dA
      dR == IF anchors # <<>> THEN minDistToSet(cand, anchors) ELSE Infinity
  IN  IF Min(dB, dR) = Infinity THEN 0
      ELSE Min(dB, dR) * 10 + dB * 2 + (IF dR < Infinity THEN dR ELSE 0)

\* the score without its jitter term
ScoreBase(cand, chosen, anchors) ==
  LET dA == minDistToSet(cand, anchors \o chosen)
      dB == IF chosen # <<>> THEN minDistToSet(cand, chosen) ELSE dA
      dR == IF anchors # <<>> THEN minDistToSet(cand, anchors) ELSE Infinity
  IN  IF Min(dB, dR) = Infinity THEN Infinity
      ELSE Min(dB, dR) * 10 + dB * 2 + (IF dR < Infinity THEN dR ELSE 0)

\* x + jitter, Infinity absorbing
Plus(x, j) == IF x = Infinity THEN Infinity ELSE x + j

\* the jitter of scoreMaximin, rng() * 0.05, from the word the call drew
Jitter(w) == FloorMul(w, 50)

\* scoreMaximin(cand, chosen, redAnchors, rng), w the word rng() returns
scoreMaximin(cand, chosen, anchors, w) ==
  Plus(ScoreBase(cand, chosen, anchors), Jitter(w))

\* ------------------------------------------------------------ Z preference
Abs(n) == IF n < 0 THEN -n ELSE n

desiredZ == <<100, 110, 120, 130, 140>>

\* the levels sorted by the jitter alone
ZSortedByJitter(zAll, dz, t, off) ==
  Values(StableSort([m \in 1..Len(zAll) |-> [k |-> RngDraw(t, off + m), v |-> zAll[m]]]))

\* the levels sorted by |z - dz| + rng() * 0.001 (the jitter only orders
\* levels at the same distance), draws off+1 .. off+n
ZSorted(zAll, dz, t, off) ==
  Values(StableSort([m \in 1..Len(zAll) |->
     [k |-> <<Abs(zAll[m] - dz)>> \o RngDraw(t, off + m), v |-> zAll[m]]]))

Rotate(arr, rot) == SubSeq(arr, rot + 1, Len(arr)) \o SubSeq(arr, 1, rot)

\* zOptionsByIdx; an unseeded call rotates each list by floor(rng() * n)
ZOptions(zAll, t, seeded) ==
  LET n == Len(zAll)
      per == IF ~seeded /\ n > 0 THEN n + 1 ELSE n
  IN  [j \in 1..5 |->
        LET arr == ZSorted(zAll, desiredZ[j], t, (j - 1) * per)
        IN  IF ~seeded /\ n > 0
            THEN Rotate(arr, FloorMul(RngDraw(t, (j - 1) * per + n + 1), n))
            ELSE arr]

ZOptionsDraws(zAll, seeded) ==
  5 * (IF ~seeded /\ Len(zAll) > 0 THEN Len(zAll) + 1 ELSE Len(zAll))

\* -------------------------------------------------------------- the search
TOPC == 22
TOPZ == 18
MAX_SOL == 20

\* the node budget: 60000 in the source, scaled so that the search of the
\* feasible inputs fills the pool within it and that of the hard inputs
\* exceeds it
MAX_NODES == 50

\* the pool with the Y test dropped
DfsPoolNoY(cands, zk, usedX, usedY) ==
  SelectSeq(byZ(cands, zk), LAMBDA c : key01(c.x) \notin usedX)

\* pool of dfs: the level's candidates with a free X and Y key
DfsPool(cands, zk, usedX, usedY) ==
  SelectSeq(byZ(cands, zk),
            LAMBDA c : key01(c.x) \notin usedX /\ key01(c.y) \notin usedY)

\* poolOk with the test against the chosen points dropped
DfsPoolOkNoBlue(pool, chosen, anchors) ==
  SelectSeq(pool, LAMBDA c : (\A r \in Range(anchors) : dist3D(c, r) >= MIN_RED_BLUE))

\* poolOk of dfs
DfsPoolOk(pool, chosen, anchors) ==
  SelectSeq(pool, LAMBDA c :
     /\ (\A r \in Range(anchors) : dist3D(c, r) >= MIN_RED_BLUE)
     /\ (\A q \in Range(chosen) : dist3D(c, q) >= MIN_BLUE_BLUE))

\* ranked of dfs: candidate j draws word 2j-1 inside scoreMaximin and word
\* 2j for rng() * 0.02; sorted by b.s - a.s, the first TOPC kept
DfsRanked(poolOk, chosen, anchors, t) ==
  Take(Values(StableSort([j \in 1..Len(poolOk) |->
     [k |-> <<0 - Plus(scoreMaximin(poolOk[j], chosen, anchors, RngDraw(t, 2 * j - 1)),
                       FloorMul(RngDraw(t, 2 * j), 20))>>,
      v |-> poolOk[j]]])), TOPC)

\* ------------------------------------------------------------ refinePoints
Others(best, i) == [j \in 1..(Len(best) - 1) |-> IF j < i THEN best[j] ELSE best[j + 1]]

\* the pool taken from the candidates of every Z level
RefinePoolAnyZ(best, i, cands, anchors) ==
  SelectSeq(cands, LAMBDA c :
     LET cx == key01(c.x)
         cy == key01(c.y)
     IN  /\ ~(cx = key01(best[i].x) /\ cy = key01(best[i].y))
         /\ ~\E q \in 1..Len(best) :
               q # i /\ (key01(best[q].x) = cx \/ key01(best[q].y) = cy)
         /\ ~\E r \in 1..Len(anchors) :
               key01(anchors[r].x) = cx \/ key01(anchors[r].y) = cy
         /\ (\A r \in Range(anchors) : dist3D(c, r) >= MIN_RED_BLUE)
         /\ \A q \in 1..Len(best) : q = i \/ dist3D(c, best[q]) >= MIN_BLUE_BLUE)

\* pool of refinePoints for entry i: same Z level, a real change of the
\* point, X and Y keys free of the other points and of the active sources,
\* both distance minimums
RefinePool(best, i, cands, anchors) ==
  SelectSeq(byZ(cands, key01(best[i].z)), LAMBDA c :
     LET cx == key01(c.x)
         cy == key01(c.y)
     IN  /\ ~(cx = key01(best[i].x) /\ cy = key01(best[i].y))
         /\ ~\E q \in 1..Len(best) :
               q # i /\ (key01(best[q].x) = cx \/ key01(best[q].y) = cy)
         /\ ~\E r \in 1..Len(anchors) :
               key01(anchors[r].x) = cx \/ key01(anchors[r].y) = cy
         /\ (\A r \in Range(anchors) : dist3D(c, r) >= MIN_RED_BLUE)
         /\ \A q \in 1..Len(best) : q = i \/ dist3D(c, best[q]) >= MIN_BLUE_BLUE)

\* the comparison turned around
Worse(sc, score) == sc < score

\* sc > score
Better(sc, score) == sc > score

\* for (const p of pool): pool[j] draws word j + 1; keeps the running best
RECURSIVE RefineScan(_, _, _, _, _, _)
RefineScan(pool, j, others, anchors, t, acc) ==
  IF j > Len(pool) THEN acc
  ELSE LET sc == scoreMaximin(pool[j], others, anchors, RngDraw(t, j + 1))
       IN  IF Better(sc, acc.score)
           THEN RefineScan(pool, j + 1, others, anchors, t, [score |-> sc, cand |-> pool[j]])
           ELSE RefineScan(pool, j + 1, others, anchors, t, acc)

\* one iteration of the inner loop of refinePoints: the point entry i ends
\* with, the score computed for the point it held and for the one it ends with
RefineEntry(best, i, cands, anchors, t) ==
  LET others == Others(best, i)
      pool == RefinePool(best, i, cands, anchors)
      score0 == scoreMaximin(best[i], others, anchors, RngDraw(t, 1))
      fin == RefineScan(pool, 1, others, anchors, t, [score |-> score0, cand |-> best[i]])
  IN  [cand |-> fin.cand, score |-> fin.score, score0 |-> score0,
       draws |-> 1 + Len(pool)]

\* ---------------------------------------------------------------- fallback
\* shuffle: for (i = n - 1; i > 0; i--) swap a[i], a[floor(rng() * (i + 1))]
RECURSIVE ShuffleFrom(_, _, _)
ShuffleFrom(a, p, t) ==
  IF p < 2 THEN a
  ELSE LET j == FloorMul(RngDraw(t, Len(a) - p + 1), p) + 1
           b == [a EXCEPT ![p] = a[j], ![j] = a[p]]
       IN  ShuffleFrom(b, p - 1, t)

shuffle(arr, t) == ShuffleFrom(arr, Len(arr), t)

FALLBACK_TOP == 20

\* the levels with the last one no looser than the third
FbOkNoLast(l, c, fb, anchors0) ==
  /\ key01(c.x) \notin fb.usedX
  /\ key01(c.y) \notin fb.usedY
  /\ key01(c.z) \notin fb.usedZ
  /\ (l <= 2 => (\A r \in Range(anchors0) : dist3D(c, r) >= MIN_RED_BLUE))
  /\ (l = 1 => (\A q \in Range(fb.chosen) : dist3D(c, q) >= MIN_BLUE_BLUE))

\* levels[l - 1] of the fallback loop
FbOk(l, c, fb, anchors0) ==
  IF l = 4 THEN TRUE
  ELSE /\ key01(c.x) \notin fb.usedX
       /\ key01(c.y) \notin fb.usedY
       /\ key01(c.z) \notin fb.usedZ
       /\ (l <= 2 => (\A r \in Range(anchors0) : dist3D(c, r) >= MIN_RED_BLUE))
       /\ (l = 1 => (\A q \in Range(fb.chosen) : dist3D(c, q) >= MIN_BLUE_BLUE))

FbFiltered(l, fb, anchors0) == SelectSeq(fb.all, LAMBDA c : FbOk(l, c, fb, anchors0))

\* the loosest level at once
FbLevelLast(fb, anchors0) == IF fb.all # <<>> THEN 4 ELSE 0

\* the first level some candidate passes (0: none)
FbLevel(fb, anchors0) ==
  IF \E l \in 1..4 : FbFiltered(l, fb, anchors0) # <<>>
  THEN CHOOSE l \in 1..4 :
         /\ FbFiltered(l, fb, anchors0) # <<>>
         /\ \A m \in 1..(l - 1) : FbFiltered(m, fb, anchors0) = <<>>
  ELSE 0

\* cand of the fallback loop at level l: scored (one word each), sorted,
\* the first 20
FbCand(l, fb, anchors0, t) ==
  LET f == FbFiltered(l, fb, anchors0)
  IN  Take(Values(StableSort([j \in 1..Len(f) |->
        [k |-> <<0 - scoreMaximin(f[j], fb.chosen, anchors0, RngDraw(t, j))>>,
         v |-> f[j]]])), FALLBACK_TOP)

\* while (chosen.length < 5 && candidates.length) chosen.push(random candidate)
RECURSIVE PadChosen(_, _, _, _)
PadChosen(chosen, cands, t, d) ==
  IF Len(chosen) < 5 /\ Len(cands) > 0
  THEN PadChosen(Append(chosen, cands[FloorMul(RngDraw(t, d), Len(cands)) + 1]),
                 cands, t, d + 1)
  ELSE chosen

\* ------------------------------------------------------------------ inputs
\* candidate lattices (cells in centimetres, Z levels in centimetres)
CellsDiag == << <<50, 50>>, <<100, 100>>, <<150, 150>>, <<200, 200>>,
                <<250, 250>>, <<40, 60>>, <<60, 40>>, <<50, 200>> >>
ZsDiag == <<80, 90, 100, 110, 120>>

\* one cell more: the search runs out of budget with a part of the pool filled
CellsWide == CellsDiag \o << <<200, 100>> >>

\* a rectangular floor plan, counter-clockwise from (x0, y0)
Rect(x0, y0, x1, y1) ==
  << [x |-> x0, y |-> y0], [x |-> x1, y |-> y0], [x |-> x1, y |-> y1], [x |-> x0, y |-> y1] >>

\* the room the lattices above are cells of: 3.2 x 3.2 m, 2 m high
RoomDiag == [vertices |-> Rect(0 - 10, 0 - 10, 310, 310), alturaZ |-> 200]

\* the 1 x 1 m footprint, height 1.2 m: one cell, three levels
RoomTiny == [vertices |-> Rect(0, 0, 100, 100), alturaZ |-> 120]
CellsTiny == << <<50, 50>> >>
ZsTiny == <<50, 60, 70>>

\* a 0.9 x 0.9 m footprint: no cell is a margin away from all four walls
RoomNone == [vertices |-> Rect(0, 0, 90, 90), alturaZ |-> 120]

\* an anchor as the saved state can hold it (JSON.parse, s.F1 && setF1(s.F1)):
\* an object with no x
AnchorNoX == [y |-> 150, z |-> 180]

\* the arguments of a call and the room the caller built the candidates from
Case(room, cands, f1, a1, f2, a2) ==
  [vertices |-> room.vertices, alturaZ |-> room.alturaZ, candidates |-> cands,
   F1 |-> f1, f1Active |-> a1, F2 |-> f2, f2Active |-> a2]

Scenarios ==
  { Case(RoomDiag, Cross(CellsDiag, ZsDiag), Pt(50, 150, 180), FALSE, Pt(250, 50, 110), FALSE),
    Case(RoomDiag, Cross(CellsWide, ZsDiag), Pt(50, 150, 180), FALSE, Pt(250, 50, 110), FALSE),
    Case(RoomDiag, Cross(CellsDiag, ZsDiag), Pt(297, 52, 80), TRUE, Pt(250, 50, 110), FALSE),
    Case(RoomDiag, Cross(CellsDiag, ZsDiag), Pt(297, 52, 80), TRUE, Pt(303, 172, 130), TRUE),
    Case(RoomDiag, Cross(CellsDiag, ZsDiag), Pt(297, 52, 80), TRUE, Pt(303, 100, 130), TRUE),
    Case(RoomDiag, Cross(CellsDiag, ZsDiag), AnchorNoX, TRUE, Pt(250, 50, 110), FALSE),
    Case(RoomTiny, candidates(RoomTiny.vertices, RoomTiny.alturaZ),
         Pt(50, 150, 180), TRUE, Pt(250, 50, 110), TRUE),
    Case(RoomTiny, candidates(RoomTiny.vertices, RoomTiny.alturaZ),
         Pt(20, 30, 60), TRUE, Pt(80, 70, 60), FALSE),
    Case(RoomTiny, candidates(RoomTiny.vertices, RoomTiny.alturaZ),
         Pt(20, 30, 60), FALSE, Pt(80, 70, 60), FALSE),
    Case(RoomNone, candidates(RoomNone.vertices, RoomNone.alturaZ),
         Pt(50, 150, 180), TRUE, Pt(250, 50, 110), TRUE) }

\* seed strings as character codes; <<>> is no seed (null or "")
Seeds == { <<>>, <<97, 98, 99>> }

\* "hook": generateBluePoints of hooks/useBluePoints, which imports
\* scoreMaximin and refinePoints; "app": the copy inlined in App
Variants == {"hook", "app"}

\* Date.now() as a 32-bit word at clock tick k, and the ticks of a run
Clock(k) == Add32(<<52979, 61819>>, Word(k * 997))
\* the call counter the first request of a run is made with: a fresh one,
\* and one larger than the pool
NonceStart == {0, 21}

MaxTick == 2
MaxCalls == 2

\* ------------------------------------------------------------------- state
VARIABLES
  app,            \* the state of the App component in the history specification
  geo,            \* the room of the grid builder, its grid, the point probed; the
                  \* latest call of scoreMaximin or buildViolationSummary
  args,           \* F1, F2, f1Active, f2Active, candidates, seed, variant, and the room
  genNonce,       \* the call counter the caller passes
  tick,           \* the clock tick of the latest call
  calls,          \* invocations started
  pc,             \* "ready", "idle", "search", "refine", "fallback", "done"
  rng,            \* the state t of mulberry32
  zOptionsByIdx,
  nodes,
  solutions,
  stack,          \* the dfs frames, the running one last
  ret,            \* the value the frame that just returned gave: "none", "true", "false"
  refine,         \* best, it, i of refinePoints and what the last iteration did
  fb,             \* chosen, usedX, usedY, usedZ, all, k of the fallback
  result,         \* {points, feasible}
  outcome,        \* "none", "returned", "threw"
  prev,           \* arguments, result and outcome of the previous invocation
  expansions      \* dfs calls of this invocation that passed the budget check

vars == <<app, geo, args, genNonce, tick, calls, pc, rng, zOptionsByIdx, nodes, solutions,
          stack, ret, refine, fb, result, outcome, prev, expansions>>

seeded == args.seed # <<>>

\* both anchors, whatever their flags
redAnchorsAll == <<args.F1, args.F2>>

\* redAnchors()
redAnchors ==
  (IF args.f1Active THEN <<args.F1>> ELSE <<>>) \o (IF args.f2Active THEN <<args.F2>> ELSE <<>>)

\* usedX0, usedY0 (usedZ0 stays empty: a source's Z blocks no level)
usedX0 == {key01(redAnchors[j].x) : j \in 1..Len(redAnchors)}
usedY0 == {key01(redAnchors[j].y) : j \in 1..Len(redAnchors)}
usedZ0 == {}

NoResult == [points |-> <<>>, feasible |-> FALSE]
NoRefine == [idx |-> 0, pts |-> <<>>, best |-> <<>>, it |-> 0, i |-> 0, last |-> <<>>]
NoFb == [chosen |-> <<>>, usedX |-> {}, usedY |-> {}, usedZ |-> {}, all |-> <<>>,
         k |-> 0, levels |-> <<>>]

NoGeo ==
  [vertices |-> <<>>, alturaZ |-> 0, pieces |-> <<>>, built |-> FALSE, xyCells |-> <<>>,
   zLevels |-> <<>>, candidates |-> <<>>, probe |-> <<>>, inside |-> FALSE,
   call |-> <<>>]

\* no App component is mounted
NoApp == <<>>

Init ==
  /\ app = NoApp
  /\ geo = NoGeo
  /\ args \in { [F1 |-> sc.F1, F2 |-> sc.F2, f1Active |-> sc.f1Active,
                 f2Active |-> sc.f2Active, candidates |-> sc.candidates,
                 vertices |-> sc.vertices, alturaZ |-> sc.alturaZ,
                 seed |-> sd, variant |-> v] :
                sc \in Scenarios, sd \in Seeds, v \in Variants }
  /\ genNonce \in NonceStart
  /\ tick = 0
  /\ calls = 0
  /\ pc = "ready"
  /\ rng = <<0, 0>>
  /\ zOptionsByIdx = <<>>
  /\ nodes = 0
  /\ solutions = <<>>
  /\ stack = <<>>
  /\ ret = "none"
  /\ refine = NoRefine
  /\ fb = NoFb
  /\ result = NoResult
  /\ outcome = "none"
  /\ prev = <<>>
  /\ expansions = 0

\* userSeed: the sum of the seed's character codes
userSeed == SumSeq(args.seed)

\* seed ? userSeed : (Date.now() ^ (genNonce * 0x9e3779b9)) >>> 0
RngSeed(tk) ==
  IF seeded THEN Word(userSeed)
  ELSE Xor32(Clock(tk), Imul(Word(genNonce), <<40503, 31161>>))

Frame(i, chosen, usedX, usedY, usedZ) ==
  [i |-> i, chosen |-> chosen, usedX |-> usedX, usedY |-> usedY, usedZ |-> usedZ,
   at |-> "enter", zList |-> <<>>, zi |-> 0, ranked |-> <<>>, ci |-> 0]

Top == stack[Len(stack)]
Pop == SubSeq(stack, 1, Len(stack) - 1)
SetTop(f) == [stack EXCEPT ![Len(stack)] = f]

\* the test for an empty list left out
NeverEmpty(cands) == FALSE

\* !candidates.length
NoCandidates(cands) == Len(cands) = 0

\* if (!candidates.length) return { points: [], feasible: false }
ReturnEmpty ==
  /\ pc = "idle"
  /\ calls < MaxCalls
  /\ NoCandidates(args.candidates)
  /\ calls' = calls + 1
  /\ result' = [points |-> <<>>, feasible |-> FALSE]
  /\ outcome' = "returned"
  /\ pc' = "done"
  /\ UNCHANGED <<app, geo, args, genNonce, tick, rng, zOptionsByIdx, nodes, solutions, stack,
                 ret, refine, fb, prev, expansions>>

\* the coordinates key01 is called with are numbers: those of the active
\* anchors
Numeric(a) == {"x", "y", "z"} \subseteq DOMAIN a
AnchorsNumeric ==
  /\ args.f1Active => Numeric(args.F1)
  /\ args.f2Active => Numeric(args.F2)

\* usedX0.add(key01(F1.x)) with F1.x undefined: n.toFixed is a TypeError,
\* after the generator was seeded and the Z preferences were drawn (locals
\* that go with the frame)
KeyThrow ==
  /\ pc = "idle"
  /\ calls < MaxCalls
  /\ ~NoCandidates(args.candidates)
  /\ ~AnchorsNumeric
  /\ \E tk \in (tick + 1)..MaxTick : tick' = tk
  /\ calls' = calls + 1
  /\ outcome' = "threw"
  /\ result' = NoResult
  /\ pc' = "done"
  /\ UNCHANGED <<app, geo, args, genNonce, rng, zOptionsByIdx, nodes, solutions, stack, ret,
                 refine, fb, prev, expansions>>

\* the call up to dfs(0, [], usedX0, usedY0, usedZ0): the generator is
\* seeded, the Z preferences are drawn, the root frame is entered
GenerateBluePoints ==
  /\ pc = "idle"
  /\ calls < MaxCalls
  /\ ~NoCandidates(args.candidates)
  /\ AnchorsNumeric
  /\ \E tk \in (tick + 1)..MaxTick :
       LET t0 == RngSeed(tk)
           zAll == zLevelsAll(args.candidates)
       IN  /\ tick' = tk
           /\ zOptionsByIdx' = ZOptions(zAll, t0, seeded)
           /\ rng' = RngAfter(t0, ZOptionsDraws(zAll, seeded))
  /\ calls' = calls + 1
  /\ nodes' = 0
  /\ expansions' = 0
  /\ solutions' = <<>>
  /\ stack' = <<Frame(0, <<>>, usedX0, usedY0, usedZ0)>>
  /\ ret' = "none"
  /\ pc' = "search"
  /\ UNCHANGED <<app, geo, args, genNonce, refine, fb, result, outcome, prev>>

\* ------------------------------------------------------------------- dfs
\* level j of the running frame's zList, and its pools
ZKey(f, j) == key01(f.zList[j])
ZPool(f, j) == DfsPool(args.candidates, ZKey(f, j), f.usedX, f.usedY)
ZPoolOk(f, j) == DfsPoolOk(ZPool(f, j), f.chosen, redAnchors)

\* the Z loop without its test of the used Z keys
ZSkippedNoUsedZ(f, j) == ZPool(f, j) = <<>> \/ ZPoolOk(f, j) = <<>>

\* the three "continue" of the Z loop: the level's key is used, no candidate
\* has a free X and Y key, none keeps the distances
ZSkipped(f, j) == ZKey(f, j) \in f.usedZ \/ ZPool(f, j) = <<>> \/ ZPoolOk(f, j) = <<>>

\* the first level from j on that the loop does not skip (0: none is left)
RECURSIVE ZLive(_, _)
ZLive(f, j) ==
  IF j > Len(f.zList) THEN 0
  ELSE IF ZSkipped(f, j) THEN ZLive(f, j + 1)
  ELSE j

\* the frame in the Z loop, at the first level from j on that is not skipped
AtLevel(f, j) == [f EXCEPT !.at = "zloop", !.zi = ZLive(f, j), !.ranked = <<>>, !.ci = 0]

\* a solution that is one point short counts as complete
IsCompleteEarly(i) == i = 4

\* if (i === 5)
IsComplete(i) == i = 5

\* the pool is never taken for full
PoolNeverFull(n) == FALSE

\* solutions.length >= MAX_SOL
PoolFull(n) == n >= MAX_SOL

\* the test against twice the budget
OverBudgetTwice(n) == n > 2 * MAX_NODES

\* nodes > MAX_NODES, on the value nodes has before nodes++
OverBudget(n) == n > MAX_NODES

\* if (nodes++ > MAX_NODES) return false
DfsBudget ==
  /\ pc = "search" /\ stack # <<>> /\ Top.at = "enter"
  /\ OverBudget(nodes)
  /\ nodes' = nodes + 1
  /\ stack' = Pop
  /\ ret' = "false"
  /\ UNCHANGED <<app, geo, args, genNonce, tick, calls, pc, rng, zOptionsByIdx, solutions,
                 refine, fb, result, outcome, prev, expansions>>

\* if (i === 5) { solutions.push(chosen.slice()); return solutions.length >= MAX_SOL }
DfsSolution ==
  /\ pc = "search" /\ stack # <<>> /\ Top.at = "enter"
  /\ ~OverBudget(nodes)
  /\ IsComplete(Top.i)
  /\ nodes' = nodes + 1
  /\ expansions' = expansions + 1
  /\ solutions' = Append(solutions, Top.chosen)
  /\ stack' = Pop
  /\ ret' = IF PoolFull(Len(solutions')) THEN "true" ELSE "false"
  /\ UNCHANGED <<app, geo, args, genNonce, tick, calls, pc, rng, zOptionsByIdx, refine, fb,
                 result, outcome, prev>>

\* zList = zOptionsByIdx[i].slice(0, min(TOPZ, length)); the Z loop runs to
\* the first level it does not skip
DfsExpand ==
  /\ pc = "search" /\ stack # <<>> /\ Top.at = "enter"
  /\ ~OverBudget(nodes)
  /\ ~IsComplete(Top.i)
  /\ nodes' = nodes + 1
  /\ expansions' = expansions + 1
  /\ stack' = SetTop(AtLevel([Top EXCEPT !.zList = Take(zOptionsByIdx[Top.i + 1], TOPZ)], 1))
  /\ UNCHANGED <<app, geo, args, genNonce, tick, calls, pc, rng, zOptionsByIdx, solutions, ret,
                 refine, fb, result, outcome, prev>>

\* the level the Z loop stopped at is filtered and ranked, the candidate
\* loop starts
DfsRankZ ==
  /\ pc = "search" /\ stack # <<>> /\ Top.at = "zloop"
  /\ Top.zi # 0
  /\ LET poolOk == ZPoolOk(Top, Top.zi)
     IN  /\ stack' = SetTop([Top EXCEPT !.at = "cloop",
                                        !.ranked = DfsRanked(poolOk, Top.chosen, redAnchors, rng),
                                        !.ci = 1])
         /\ rng' = RngAfter(rng, 2 * Len(poolOk))
  /\ UNCHANGED <<app, geo, args, genNonce, tick, calls, pc, zOptionsByIdx, nodes, solutions, ret,
                 refine, fb, result, outcome, prev, expansions>>

\* a call that adds the keys to the caller's own sets and passes them on
DfsChildShared(stk, c) ==
  LET f == stk[Len(stk)]
      nx == f.usedX \cup {key01(c.x)}
      ny == f.usedY \cup {key01(c.y)}
      nz == f.usedZ \cup {ZKey(f, f.zi)}
  IN  Append([stk EXCEPT ![Len(stk)] = [f EXCEPT !.usedX = nx, !.usedY = ny, !.usedZ = nz]],
             Frame(f.i + 1, Append(f.chosen, c), nx, ny, nz))

\* the stack once dfs(i + 1, [...chosen, c], nx, ny, nz) is entered: nx, ny
\* and nz are copies of the caller's sets with the keys of c added
DfsChild(stk, c) ==
  LET f == stk[Len(stk)]
  IN  Append(stk, Frame(f.i + 1, Append(f.chosen, c),
                        f.usedX \cup {key01(c.x)},
                        f.usedY \cup {key01(c.y)},
                        f.usedZ \cup {ZKey(f, f.zi)}))

\* dfs(i + 1, [...chosen, c], nx, ny, nz)
DfsCall ==
  /\ pc = "search" /\ stack # <<>> /\ Top.at = "cloop"
  /\ ret = "none"
  /\ stack' = DfsChild(stack, Top.ranked[Top.ci])
  /\ UNCHANGED <<app, geo, args, genNonce, tick, calls, pc, rng, zOptionsByIdx, nodes, solutions,
                 ret, refine, fb, result, outcome, prev, expansions>>

\* if (dfs(...)) return true
DfsPropagate ==
  /\ pc = "search" /\ stack # <<>> /\ Top.at = "cloop"
  /\ ret = "true"
  /\ stack' = Pop
  /\ UNCHANGED <<app, geo, args, genNonce, tick, calls, pc, rng, zOptionsByIdx, nodes, solutions,
                 ret, refine, fb, result, outcome, prev, expansions>>

\* the candidate loop that stays at the candidate it has just tried
AfterFalseSame(f) == f

\* the frame a child's "false" leaves: at the next candidate or, the ranked
\* list done, back in the Z loop at the next level it does not skip
AfterFalse(f) ==
  IF f.ci < Len(f.ranked) THEN [f EXCEPT !.ci = @ + 1]
  ELSE AtLevel(f, f.zi + 1)

\* the child returned false: the loops go on
DfsNextCandidate ==
  /\ pc = "search" /\ stack # <<>> /\ Top.at = "cloop"
  /\ ret = "false"
  /\ stack' = SetTop(AfterFalse(Top))
  /\ ret' = "none"
  /\ UNCHANGED <<app, geo, args, genNonce, tick, calls, pc, rng, zOptionsByIdx, nodes, solutions,
                 refine, fb, result, outcome, prev, expansions>>

\* the Z loop has skipped every level that was left: return false
DfsExhausted ==
  /\ pc = "search" /\ stack # <<>> /\ Top.at = "zloop"
  /\ Top.zi = 0
  /\ stack' = Pop
  /\ ret' = "false"
  /\ UNCHANGED <<app, geo, args, genNonce, tick, calls, pc, rng, zOptionsByIdx, nodes, solutions,
                 refine, fb, result, outcome, prev, expansions>>

\* --------------------------------------------------------- after the search
\* the index follows the call counter also when there is a seed
PickIndexByNonce == genNonce % Len(solutions)

\* the unseeded index is the call counter, capped at the pool's last entry
PickIndexCapped ==
  IF seeded THEN 0
  ELSE IF genNonce < Len(solutions) THEN genNonce
  ELSE Len(solutions) - 1

\* idx = seed ? 0 : genNonce % solutions.length
PickIndex == IF seeded THEN 0 ELSE genNonce % Len(solutions)

\* if (solutions.length): pick = solutions[idx].slice(), refinePoints starts
SelectSolution ==
  /\ pc = "search" /\ stack = <<>>
  /\ solutions # <<>>
  /\ refine' = [idx |-> PickIndex, pts |-> solutions[PickIndex + 1],
                best |-> solutions[PickIndex + 1], it |-> 0, i |-> 0, last |-> <<>>]
  /\ ret' = "none"
  /\ pc' = "refine"
  /\ UNCHANGED <<app, geo, args, genNonce, tick, calls, rng, zOptionsByIdx, nodes, solutions,
                 stack, fb, result, outcome, prev, expansions>>

\* one iteration (it, i) of refinePoints: best[i] = cand
RefineStep ==
  /\ pc = "refine"
  /\ refine.it < 2
  /\ LET i == refine.i + 1
         e == RefineEntry(refine.best, i, args.candidates, redAnchors, rng)
         others == Others(refine.best, i)
     IN  /\ refine' = [idx |-> refine.idx, pts |-> refine.pts,
                       best |-> [refine.best EXCEPT ![i] = e.cand],
                       it |-> IF i = Len(refine.best) THEN refine.it + 1 ELSE refine.it,
                       i |-> IF i = Len(refine.best) THEN 0 ELSE i,
                       last |-> << [i |-> i, old |-> refine.best[i], new |-> e.cand,
                                    score0 |-> e.score0, score |-> e.score,
                                    base0 |-> ScoreBase(refine.best[i], others, redAnchors),
                                    base |-> ScoreBase(e.cand, others, redAnchors)] >>]
         /\ rng' = RngAfter(rng, e.draws)
  /\ UNCHANGED <<app, geo, args, genNonce, tick, calls, pc, zOptionsByIdx, nodes, solutions,
                 stack, ret, fb, result, outcome, prev, expansions>>

\* return { points: pick, feasible: true }
ReturnFeasible ==
  /\ pc = "refine"
  /\ refine.it = 2
  /\ result' = [points |-> refine.best, feasible |-> TRUE]
  /\ outcome' = "returned"
  /\ pc' = "done"
  /\ UNCHANGED <<app, geo, args, genNonce, tick, calls, rng, zOptionsByIdx, nodes, solutions,
                 stack, ret, refine, fb, prev, expansions>>

\* no solution: anchors0, chosen, the used sets, all = shuffle(candidates, rng)
FallbackStart ==
  /\ pc = "search" /\ stack = <<>>
  /\ solutions = <<>>
  /\ fb' = [chosen |-> <<>>, usedX |-> usedX0, usedY |-> usedY0, usedZ |-> usedZ0,
            all |-> shuffle(args.candidates, rng), k |-> 0, levels |-> <<>>]
  /\ rng' = RngAfter(rng, Len(args.candidates) - 1)
  /\ ret' = "none"
  /\ pc' = "fallback"
  /\ UNCHANGED <<app, geo, args, genNonce, tick, calls, zOptionsByIdx, nodes, solutions, stack,
                 refine, result, outcome, prev, expansions>>

\* hooks/useBluePoints calls the imported scoreMaximin(c, chosen) without
\* redAnchors and rng: the first candidate a level lets through makes
\* redAnchors() a call of undefined, a TypeError
FallbackThrow ==
  /\ pc = "fallback"
  /\ args.variant = "hook"
  /\ fb.k < 5
  /\ FbLevel(fb, redAnchors) # 0
  /\ outcome' = "threw"
  /\ result' = NoResult
  /\ pc' = "done"
  /\ UNCHANGED <<app, geo, args, genNonce, tick, calls, rng, zOptionsByIdx, nodes, solutions,
                 stack, ret, refine, fb, prev, expansions>>

\* one slot of the fallback loop (App): the first level with a match, its top
\* 20 by score, one of them at random
FallbackSlot ==
  /\ pc = "fallback"
  /\ args.variant = "app"
  /\ fb.k < 5
  /\ LET l == FbLevel(fb, redAnchors)
     IN  IF l = 0
         THEN /\ fb' = [fb EXCEPT !.k = @ + 1]
              /\ rng' = rng
         ELSE LET n == Len(FbFiltered(l, fb, redAnchors))
                  cand == FbCand(l, fb, redAnchors, rng)
                  picked == cand[FloorMul(RngDraw(rng, n + 1), Len(cand)) + 1]
              IN  /\ fb' = [fb EXCEPT !.chosen = Append(@, picked),
                                      !.usedX = @ \cup {key01(picked.x)},
                                      !.usedY = @ \cup {key01(picked.y)},
                                      !.usedZ = @ \cup {key01(picked.z)},
                                      !.k = @ + 1,
                                      !.levels = Append(@, l)]
                  /\ rng' = RngAfter(rng, n + 1)
  /\ UNCHANGED <<app, geo, args, genNonce, tick, calls, pc, zOptionsByIdx, nodes, solutions,
                 stack, ret, refine, result, outcome, prev, expansions>>

\* the padding loop and return { points: chosen.slice(0, 5), feasible: false }
FallbackReturn ==
  /\ pc = "fallback"
  /\ fb.k = 5
  /\ LET padded == PadChosen(fb.chosen, args.candidates, rng, 1)
     IN  /\ result' = [points |-> Take(padded, 5), feasible |-> FALSE]
         /\ rng' = RngAfter(rng, Len(padded) - Len(fb.chosen))
  /\ outcome' = "returned"
  /\ pc' = "done"
  /\ UNCHANGED <<app, geo, args, genNonce, tick, calls, zOptionsByIdx, nodes, solutions, stack,
                 ret, refine, fb, prev, expansions>>

\* App: busy, true from generate() to the finally of its timer callback
busy == pc # "ready"

\* App.generate with the state newArgs in its closure: if (busy) return;
\* setBusy(true); ... setTimeout(callback, 20).  The callback calls
\* generateBluePoints with genNonce: nonce
generate(newArgs) ==
  /\ ~busy
  /\ calls < MaxCalls
  /\ tick < MaxTick
  /\ prev' = IF outcome = "none" THEN <<>>
             ELSE << [args |-> args, result |-> result, outcome |-> outcome] >>
  /\ args' = newArgs
  /\ pc' = "idle"
  /\ rng' = <<0, 0>>
  /\ zOptionsByIdx' = <<>>
  /\ nodes' = 0
  /\ solutions' = <<>>
  /\ refine' = NoRefine
  /\ fb' = NoFb
  /\ result' = NoResult
  /\ outcome' = "none"
  /\ expansions' = 0
  /\ UNCHANGED <<app, geo, genNonce, tick, calls, stack, ret>>

\* a request with the state as it is
Request == generate(args)

\* the anchors whose active flag is false, and where one is moved to: onto
\* a cell of the lattice, at the height of a level
InactiveAnchors ==
  (IF args.f1Active THEN {} ELSE {"F1"}) \cup (IF args.f2Active THEN {} ELSE {"F2"})
AnchorMoves == { Pt(100, 100, 100) }

\* the user moves an inactive anchor after a request and asks again
RequestMoved ==
  /\ outcome # "none"
  /\ \E a \in InactiveAnchors, p \in AnchorMoves :
       /\ p # args[a]
       /\ generate([args EXCEPT ![a] = p])

\* the rest of the timer callback.  try: setBlue(res.points), the message,
\* setNonce((n) => n + 1); catch: the error message; finally: setBusy(false)
Settle ==
  /\ pc = "done"
  /\ genNonce' = IF outcome = "returned" THEN genNonce + 1 ELSE genNonce
  /\ pc' = "ready"
  /\ UNCHANGED <<app, geo, args, tick, calls, rng, zOptionsByIdx, nodes, solutions, stack, ret,
                 refine, fb, result, outcome, prev, expansions>>

Next ==
  \/ ReturnEmpty
  \/ KeyThrow
  \/ GenerateBluePoints
  \/ DfsBudget
  \/ DfsSolution
  \/ DfsExpand
  \/ DfsRankZ
  \/ DfsCall
  \/ DfsPropagate
  \/ DfsNextCandidate
  \/ DfsExhausted
  \/ SelectSolution
  \/ RefineStep
  \/ ReturnFeasible
  \/ FallbackStart
  \/ FallbackThrow
  \/ FallbackSlot
  \/ FallbackReturn
  \/ Request
  \/ RequestMoved
  \/ Settle

Spec == Init /\ [][Next]_vars

\* ------------------------------------------------- the grid builder alone
\* floor plans, each with convex pieces (counter-clockwise) that cover it
RoomRect ==
  [vertices |-> Rect(0, 0, 300, 200), alturaZ |-> 250,
   pieces |-> << Rect(0, 0, 300, 200) >>]
RoomL ==
  [vertices |-> << [x |-> 0, y |-> 0], [x |-> 300, y |-> 0], [x |-> 300, y |-> 100],
                   [x |-> 100, y |-> 100], [x |-> 100, y |-> 200], [x |-> 0, y |-> 200] >>,
   alturaZ |-> 120,
   pieces |-> << Rect(0, 0, 300, 100), Rect(0, 0, 100, 200) >>]
RoomTriangle ==
  [vertices |-> << [x |-> 0, y |-> 0], [x |-> 300, y |-> 0], [x |-> 0, y |-> 300] >>,
   alturaZ |-> 120,
   pieces |-> << << [x |-> 0, y |-> 0], [x |-> 300, y |-> 0], [x |-> 0, y |-> 300] >> >>]
RoomSquare ==
  [vertices |-> Rect(0, 0, 100, 100), alturaZ |-> 120, pieces |-> << Rect(0, 0, 100, 100) >>]
\* the rectangle entered clockwise
RoomClockwise ==
  [vertices |-> << [x |-> 0, y |-> 0], [x |-> 0, y |-> 200], [x |-> 300, y |-> 200],
                   [x |-> 300, y |-> 0] >>,
   alturaZ |-> 100,
   pieces |-> << Rect(0, 0, 300, 200) >>]

GridRooms == {RoomRect, RoomL, RoomTriangle, RoomSquare, RoomClockwise}

\* the points pointInPolygon is asked about: the 0.5 m lattice from -0.5 m
\* to 3.5 m
Probes == { [x |-> 50 * i, y |-> 50 * j] : i, j \in (0 - 1)..7 }

\* no generation has been asked for
GeneratorIdle ==
  /\ args = <<>>
  /\ genNonce = 0
  /\ tick = 0
  /\ calls = 0
  /\ pc = "ready"
  /\ rng = <<0, 0>>
  /\ zOptionsByIdx = <<>>
  /\ nodes = 0
  /\ solutions = <<>>
  /\ stack = <<>>
  /\ ret = "none"
  /\ refine = NoRefine
  /\ fb = NoFb
  /\ result = NoResult
  /\ outcome = "none"
  /\ prev = <<>>
  /\ expansions = 0

GridInit ==
  /\ geo \in { [NoGeo EXCEPT !.vertices = r.vertices, !.alturaZ = r.alturaZ,
                              !.pieces = r.pieces] : r \in GridRooms }
  /\ app = NoApp
  /\ GeneratorIdle

\* App: the memos xyCells, zLevels and candidates of the room
BuildGrid ==
  /\ ~geo.built
  /\ geo' = [geo EXCEPT !.built = TRUE,
                        !.xyCells = xyCells(geo.vertices),
                        !.zLevels = zLevels(geo.alturaZ),
                        !.candidates = candidates(geo.vertices, geo.alturaZ)]
  /\ UNCHANGED <<app, args, genNonce, tick, calls, pc, rng, zOptionsByIdx, nodes, solutions,
                 stack, ret, refine, fb, result, outcome, prev, expansions>>

\* pointInPolygon(p, vertices) for a point p
ProbePoint ==
  /\ \E p \in Probes :
       geo' = [geo EXCEPT !.probe = <<p>>, !.inside = pointInPolygon(p, geo.vertices)]
  /\ UNCHANGED <<app, args, genNonce, tick, calls, pc, rng, zOptionsByIdx, nodes, solutions,
                 stack, ret, refine, fb, result, outcome, prev, expansions>>

GridNext ==
  \/ BuildGrid
  \/ ProbePoint

SpecGrid == GridInit /\ [][GridNext]_vars

\* -------------------------------------------------------- scoreMaximin alone
\* the arguments scoreMaximin is called with: a candidate, the points chosen
\* so far, the active anchors, the word rng() returns
ScoreCands == { Pt(50, 50, 80), Pt(150, 150, 100), Pt(250, 250, 120) }
ScoreChosen ==
  { <<>>, << Pt(100, 100, 90) >>, << Pt(100, 100, 90), Pt(200, 200, 110) >>,
    << Pt(150, 150, 100) >> }
ScoreAnchors ==
  { <<>>, << Pt(297, 52, 80) >>, << Pt(297, 52, 80), Pt(303, 172, 130) >>,
    << Pt(50, 50, 80) >> }
ScoreWords == { <<0, 0>>, <<32768, 0>>, <<65535, 65535>> }

ScoreInit ==
  /\ app = NoApp
  /\ geo = NoGeo
  /\ GeneratorIdle

\* scoreMaximin(cand, chosen, redAnchors, rng)
ScoreCall ==
  /\ \E c \in ScoreCands, ch \in ScoreChosen, an \in ScoreAnchors, w \in ScoreWords :
       geo' = [geo EXCEPT !.call = << [cand |-> c, chosen |-> ch, anchors |-> an, w |-> w,
                                       score |-> scoreMaximin(c, ch, an, w)] >>]
  /\ UNCHANGED <<app, args, genNonce, tick, calls, pc, rng, zOptionsByIdx, nodes, solutions,
                 stack, ret, refine, fb, result, outcome, prev, expansions>>

ScoreNext == ScoreCall

SpecScore == ScoreInit /\ [][ScoreNext]_vars

\* ------------------------------------------- App: history (undo / redo)
\* the values the handlers are given
AlturaInputs == { 250, 300 }
VertexInputs == { 400 }
SourceInputs == { 100 }
BlueInputs == { 120 }
RingInputs == { 100 }
Sources == { "F1", "F2" }
GenResults ==
  { << Pt(50, 50, 60), Pt(100, 150, 100), Pt(150, 100, 140), Pt(200, 60, 180),
       Pt(250, 140, 200) >> }
MaxPast == 2

\* useState initial values
AppMounted ==
  [vertices |-> Rect(0, 0, 300, 200), alturaZ |-> 250,
   F1 |-> Pt(50, 150, 180), F2 |-> Pt(250, 50, 110),
   activeF1 |-> TRUE, activeF2 |-> TRUE, blue |-> <<>>, blueActive |-> TRUE,
   ringsRed |-> {50, 70}, ringsBlue |-> {50, 70},
   busy |-> FALSE, nonce |-> 0, past |-> <<>>, future |-> <<>>,
   \* blue, ringsRed and ringsBlue as the memoized generate sees them
   gen |-> [blue |-> <<>>, ringsRed |-> {50, 70}, ringsBlue |-> {50, 70}],
   \* the timeouts set and not yet run, with the nonce of their closure
   timers |-> <<>>,
   \* the handler that ran last ("undoDone": undo right after a generation
   \* returned, "redoUndo": redo right after undo); the state when generate was
   \* asked for, while no other handler has run since; the state and the
   \* stacks before the latest undo
   last |-> "mount", asked |-> <<>>, pre |-> <<>>]

takeSnapshot(a) ==
  [vertices |-> a.vertices, alturaZ |-> a.alturaZ, F1 |-> a.F1, F2 |-> a.F2,
   activeF1 |-> a.activeF1, activeF2 |-> a.activeF2, blue |-> a.blue,
   blueActive |-> a.blueActive, ringsRed |-> a.ringsRed, ringsBlue |-> a.ringsBlue]

\* the object generate pushes on past: blue and the rings are those of the
\* render in which useCallback last made the function
generateSnapshot(a) ==
  [vertices |-> a.vertices, alturaZ |-> a.alturaZ, F1 |-> a.F1, F2 |-> a.F2,
   activeF1 |-> a.activeF1, activeF2 |-> a.activeF2, blue |-> a.gen.blue,
   ringsRed |-> a.gen.ringsRed, ringsBlue |-> a.gen.ringsBlue]

applySnapshot(a, s) ==
  [a EXCEPT !.vertices = s.vertices, !.alturaZ = s.alturaZ, !.F1 = s.F1, !.F2 = s.F2,
            !.activeF1 = s.activeF1, !.activeF2 = s.activeF2, !.blue = s.blue,
            !.blueActive = IF "blueActive" \in DOMAIN s THEN s.blueActive ELSE @,
            !.ringsRed = s.ringsRed, !.ringsBlue = s.ringsBlue]

\* a render in which a dependency of useCallback(generate) has changed
Remade(a) ==
  [a EXCEPT !.gen = [blue |-> a.blue, ringsRed |-> a.ringsRed, ringsBlue |-> a.ringsBlue]]

\* setPast((p) => [...p, takeSnapshot()]); setFuture([])
Recorded(a) == [a EXCEPT !.past = Append(@, takeSnapshot(a)), !.future = <<>>]

\* a handler has run that was not generate, its timeout, undo or redo
Edited(a) == [a EXCEPT !.last = "edit", !.asked = <<>>, !.pre = <<>>]

Toggle(set, r) == IF r \in set THEN set \ {r} ELSE set \cup {r}

HistoryInit ==
  /\ app = AppMounted
  /\ geo = NoGeo
  /\ GeneratorIdle

Idle == UNCHANGED <<geo, args, genNonce, tick, calls, pc, rng, zOptionsByIdx, nodes,
                    solutions, stack, ret, refine, fb, result, outcome, prev, expansions>>

CommitVertexX ==
  /\ Len(app.past) < MaxPast
  /\ \E i \in {2}, val \in VertexInputs :
       app' = Remade(Edited([Recorded(app) EXCEPT !.vertices[i].x = val]))
  /\ Idle

CommitAlturaZ ==
  /\ Len(app.past) < MaxPast
  /\ \E val \in AlturaInputs :
       app' = LET a == Edited([Recorded(app) EXCEPT !.alturaZ = val])
              IN  IF val = app.alturaZ THEN a ELSE Remade(a)
  /\ Idle

ToggleActive ==
  /\ Len(app.past) < MaxPast
  /\ \E name \in Sources :
       app' = Remade(Edited(IF name = "F1"
                            THEN [Recorded(app) EXCEPT !.activeF1 = ~@]
                            ELSE [Recorded(app) EXCEPT !.activeF2 = ~@]))
  /\ Idle

CommitSourceX ==
  /\ Len(app.past) < MaxPast
  /\ \E name \in Sources, val \in SourceInputs :
       app' = Remade(Edited(IF name = "F1"
                            THEN [Recorded(app) EXCEPT !.F1.x = val]
                            ELSE [Recorded(app) EXCEPT !.F2.x = val]))
  /\ Idle

ToggleRingRed ==
  /\ Len(app.past) < MaxPast
  /\ \E r \in RingInputs :
       app' = Edited([Recorded(app) EXCEPT !.ringsRed = Toggle(@, r)])
  /\ Idle

ToggleRingBlue ==
  /\ Len(app.past) < MaxPast
  /\ \E r \in RingInputs :
       app' = Edited([Recorded(app) EXCEPT !.ringsBlue = Toggle(@, r)])
  /\ Idle

CommitBlueX ==
  /\ Len(app.past) < MaxPast
  /\ app.blueActive
  /\ \E i \in 1..Len(app.blue), val \in BlueInputs :
       /\ i = 1
       /\ app' = Edited([Recorded(app) EXCEPT !.blue[i].x = val])
  /\ Idle

\* the button Limpiar
Clear ==
  /\ Len(app.past) < MaxPast
  /\ ~app.busy
  /\ app' = Edited([Recorded(app) EXCEPT !.blueActive = FALSE])
  /\ Idle

\* a generate that does nothing
GenerateIgnoredNever(a) == FALSE

\* the button is disabled while busy, and generate returns at once if busy
GenerateIgnored(a) == a.busy

\* generate up to setTimeout
AppGenerate ==
  /\ Len(app.past) < MaxPast
  /\ app.nonce < MaxCalls
  /\ Len(app.timers) < 2
  /\ ~GenerateIgnored(app)
  /\ app' = Remade([app EXCEPT !.busy = TRUE,
                               !.past = Append(@, generateSnapshot(app)),
                               !.future = <<>>,
                               !.timers = Append(@, [nonce |-> app.nonce]),
                               !.last = "generate",
                               !.asked = << takeSnapshot(app) >>, !.pre = <<>>])
  /\ Idle

\* the callback of setTimeout: generateBluePoints returns points or throws
GenerateTimeout ==
  /\ app.timers # <<>>
  /\ \/ \E pts \in GenResults :
          app' = Remade([app EXCEPT !.blue = pts, !.blueActive = TRUE,
                                    !.nonce = @ + 1, !.busy = FALSE,
                                    !.timers = Tail(@),
                                    !.last = "done", !.pre = <<>>])
     \/ app' = Remade([app EXCEPT !.busy = FALSE, !.timers = Tail(@),
                                  !.last = "threw", !.asked = <<>>, !.pre = <<>>])
  /\ Idle

undo ==
  /\ app.past # <<>>
  /\ app' = LET p == app.past
                a == applySnapshot(app, p[Len(p)])
            IN  Remade([a EXCEPT !.future = << takeSnapshot(app) >> \o @,
                                 !.past = SubSeq(p, 1, Len(p) - 1),
                                 !.last = IF app.last = "done" THEN "undoDone" ELSE "undo",
                                 !.asked = IF app.last = "done" THEN @ ELSE <<>>,
                                 !.pre = << [snap |-> takeSnapshot(app), past |-> app.past,
                                             future |-> app.future] >>])
  /\ Idle

redo ==
  /\ app.future # <<>>
  /\ app' = LET f == app.future
                a == applySnapshot(app, f[1])
            IN  Remade([a EXCEPT !.past = Append(@, takeSnapshot(app)),
                                 !.future = Tail(f),
                                 !.last = IF app.last \in {"undo", "undoDone"}
                                          THEN "redoUndo" ELSE "redo",
                                 !.asked = <<>>,
                                 !.pre = IF app.last \in {"undo", "undoDone"}
                                         THEN @ ELSE <<>>])
  /\ Idle

HistoryNext ==
  \/ CommitVertexX
  \/ CommitAlturaZ
  \/ ToggleActive
  \/ CommitSourceX
  \/ ToggleRingRed
  \/ ToggleRingBlue
  \/ CommitBlueX
  \/ Clear
  \/ AppGenerate
  \/ GenerateTimeout
  \/ undo
  \/ redo

SpecHistory == HistoryInit /\ [][HistoryNext]_vars

\* ------------------------------------------- buildViolationSummary alone
\* { name, p }: "F1", "F2" or "P<n>" with its coordinates
Named(kind, n, p) == [kind |-> kind, n |-> n, p |-> p]

pointsWithNames(pts) == [i \in 1..Len(pts) |-> Named("P", i, pts[i])]

allPoints(pts, F1, F2, activeF1, activeF2) ==
  (IF activeF1 THEN << Named("F", 1, F1) >> ELSE <<>>)
    \o (IF activeF2 THEN << Named("F", 2, F2) >> ELSE <<>>)
    \o pointsWithNames(pts)

\* the names checkCoordinateDuplicates collects under key k on axis ax
DupNames(points, includeFx, ax, k) ==
  { [kind |-> points[j].kind, n |-> points[j].n] :
      j \in { i \in 1..Len(points) :
                /\ (ax = "z" /\ ~includeFx) => points[i].kind = "P"
                /\ key01(points[i].p[ax]) = k } }

\* checkCoordinateDuplicates(points, { includeFx }): one message for every
\* axis and key that more than one name of the pool has
checkCoordinateDuplicates(points, includeFx) ==
  { [issue |-> "dup", axis |-> ak[1], key |-> ak[2],
     names |-> DupNames(points, includeFx, ak[1], ak[2])] :
      ak \in { c \in {"x", "y", "z"} \X { key01(points[j].p[ax]) :
                                           j \in 1..Len(points), ax \in {"x", "y", "z"} } :
                 Cardinality(DupNames(points, includeFx, c[1], c[2])) > 1 } }

checkPolygonAndMargins(p, vertices, alturaZ) ==
  (IF ~pointInPolygon(p, vertices) THEN {"polygon"} ELSE {})
    \cup (IF ~FarFromEdges(p, vertices) THEN {"border"} ELSE {})
    \cup (IF p.z < MARGIN \/ p.z > alturaZ - MARGIN THEN {"z"} ELSE {})

\* d.toFixed(1), d in millimetres, as a number of tenths of a metre
Tenths(d) == (d + 50) \div 100

\* checkAllDistances over points that are all named P
checkAllDistances(points) ==
  { [issue |-> "P-P", a |-> points[ij[1]].n, b |-> points[ij[2]].n,
     d |-> Tenths(dist3D(points[ij[1]].p, points[ij[2]].p))] :
      ij \in { c \in (1..Len(points)) \X (1..Len(points)) :
                 /\ c[1] < c[2]
                 /\ dist3D(points[c[1]].p, points[c[2]].p) < MIN_BLUE_BLUE } }

\* buildViolationSummary(pts), the messages as a set
buildViolationSummary(pts, F1, F2, activeF1, activeF2, vertices, alturaZ) ==
  LET named == pointsWithNames(pts)
      msgs(i) == checkPolygonAndMargins(pts[i], vertices, alturaZ)
  IN  { [issue |-> "outside", n |-> i] :
          i \in { k \in 1..Len(pts) : msgs(k) \cap {"polygon", "border"} # {} } }
      \cup { [issue |-> "z margin", n |-> i] : i \in { k \in 1..Len(pts) : "z" \in msgs(k) } }
      \cup checkCoordinateDuplicates(allPoints(pts, F1, F2, activeF1, activeF2), TRUE)
      \cup checkAllDistances(named)
      \cup { [issue |-> "P-F", n |-> i, f |-> 1, d |-> Tenths(dist3D(pts[i], F1))] :
               i \in { k \in 1..Len(pts) : activeF1 /\ dist3D(pts[k], F1) < MIN_RED_BLUE } }
      \cup { [issue |-> "P-F", n |-> i, f |-> 2, d |-> Tenths(dist3D(pts[i], F2))] :
               i \in { k \in 1..Len(pts) : activeF2 /\ dist3D(pts[k], F2) < MIN_RED_BLUE } }

\* point sets the generator returns in the 3 x 2 x 2.5 m room of the App's
\* initial state, and point sets that break one rule each
SummaryPoints ==
  { <<>>,
    << Pt(240, 140, 170), Pt(60, 60, 90), Pt(200, 130, 70), Pt(140, 120, 140), Pt(190, 70, 200) >>,
    << Pt(110, 60, 150), Pt(210, 140, 140), Pt(60, 90, 90), Pt(190, 70, 190), Pt(130, 130, 110) >>,
    << Pt(60, 120, 50), Pt(240, 140, 170), Pt(90, 60, 120), Pt(150, 90, 200), Pt(170, 130, 90) >>,
    << Pt(140, 60, 60), Pt(180, 140, 100), Pt(60, 100, 90), Pt(130, 70, 190), Pt(240, 130, 180) >>,
    << Pt(20, 140, 170), Pt(60, 60, 90), Pt(200, 130, 70), Pt(140, 120, 140), Pt(190, 70, 200) >>,
    << Pt(240, 140, 170), Pt(60, 60, 90), Pt(200, 130, 70), Pt(140, 120, 140), Pt(190, 70, 230) >>,
    << Pt(240, 140, 170), Pt(240, 60, 90), Pt(200, 130, 70), Pt(140, 120, 140), Pt(190, 70, 200) >>,
    << Pt(240, 140, 170), Pt(60, 60, 90), Pt(200, 130, 70), Pt(140, 120, 140), Pt(150, 110, 150) >>,
    << Pt(60, 140, 170), Pt(70, 60, 90), Pt(200, 130, 70), Pt(140, 120, 140), Pt(190, 70, 200) >> }
SummaryF1 == { Pt(50, 150, 180), Pt(50, 150, 140) }
SummaryF2 == { Pt(250, 50, 110), Pt(250, 50, 90) }

SummaryInit ==
  /\ app = NoApp
  /\ geo = NoGeo
  /\ GeneratorIdle

\* const issues = buildViolationSummary(res.points)
SummaryCall ==
  /\ \E pts \in SummaryPoints, F1 \in SummaryF1, F2 \in SummaryF2,
        activeF1 \in BOOLEAN, activeF2 \in BOOLEAN :
       LET vertices == Rect(0, 0, 300, 200)
           alturaZ == 250
       IN  geo' = [geo EXCEPT !.call =
                     << [pts |-> pts, F1 |-> F1, F2 |-> F2, activeF1 |-> activeF1,
                         activeF2 |-> activeF2, vertices |-> vertices, alturaZ |-> alturaZ,
                         issues |-> buildViolationSummary(pts, F1, F2, activeF1, activeF2,
                                                          vertices, alturaZ)] >>]
  /\ UNCHANGED <<app, args, genNonce, tick, calls, pc, rng, zOptionsByIdx, nodes, solutions,
                 stack, ret, refine, fb, result, outcome, prev, expansions>>

SummaryNext == SummaryCall

SpecSummary == SummaryInit /\ [][SummaryNext]_vars

\* ------------------------------------------------------------- properties
\* generateBluePoints has returned a value / one with feasible = true
Returned == pc = "done" /\ outcome = "returned"
Feasible == Returned /\ result.feasible

\* the active sources followed by the returned points
Placed == redAnchors \o result.points

DistinctXY(p, q) == key01(p.x) # key01(q.x) /\ key01(p.y) # key01(q.y)

\* C1 as stated: in a feasible result no two points among the active
\* sources and the returned points share an X key or a Y key, wherever F1
\* and F2 are placed (the two sources included as a pair)
C1_AllPairsDistinctXY ==
  Feasible => \A a, b \in 1..Len(Placed) : a # b => DistinctXY(Placed[a], Placed[b])

\* C1: in a feasible result every returned point has an X key and a Y key
\* that no other returned point and no active source has; the two sources
\* are not compared with each other
C1_PointKeysFree ==
  Feasible =>
    \A a \in 1..Len(result.points) :
      /\ \A b \in 1..Len(result.points) :
            a # b => DistinctXY(result.points[a], result.points[b])
      /\ \A r \in 1..Len(redAnchors) : DistinctXY(result.points[a], redAnchors[r])

\* a feasible result with both sources active on one X key, and candidates
\* that share keys with a returned point and with a source
C1_Witness ==
  /\ Feasible
  /\ Len(redAnchors) = 2
  /\ key01(args.F1.x) = key01(args.F2.x)
  /\ \E j \in 1..Len(args.candidates) :
        key01(args.candidates[j].y) = key01(args.F1.y)
  /\ \E j \in 1..Len(args.candidates), a \in 1..Len(result.points) :
        /\ key01(args.candidates[j].x) = key01(result.points[a].x)
        /\ key01(args.candidates[j].y) # key01(result.points[a].y)

\* C2: in a feasible result every active source is at 3D distance >= 1.0 m
\* from each returned point and every two returned points are at 3D
\* distance >= 0.7 m
C2_Distances ==
  Feasible =>
    \A a \in 1..Len(result.points) :
      /\ \A r \in 1..Len(redAnchors) :
            dist3D(redAnchors[r], result.points[a]) >= MIN_RED_BLUE
      /\ \A b \in 1..Len(result.points) :
            a # b => dist3D(result.points[a], result.points[b]) >= MIN_BLUE_BLUE

\* a feasible result with an active source, where some candidate with free
\* keys is nearer than 1.0 m to a source and two candidates with distinct
\* keys are nearer than 0.7 m to each other
C2_Witness ==
  /\ Feasible
  /\ \E j \in 1..Len(args.candidates), r \in 1..Len(redAnchors) :
        /\ DistinctXY(args.candidates[j], redAnchors[r])
        /\ dist3D(args.candidates[j], redAnchors[r]) < MIN_RED_BLUE
  /\ \E j, k \in 1..Len(args.candidates) :
        /\ DistinctXY(args.candidates[j], args.candidates[k])
        /\ key01(args.candidates[j].z) # key01(args.candidates[k].z)
        /\ dist3D(args.candidates[j], args.candidates[k]) < MIN_BLUE_BLUE

\* C3: in a feasible result the five returned points have pairwise distinct
\* Z keys; the Z key of an active source excludes no level
C3_DistinctZ ==
  Feasible =>
    /\ Len(result.points) = 5
    /\ \A a, b \in 1..5 :
          a # b => key01(result.points[a].z) # key01(result.points[b].z)

\* a feasible result with a returned point on the Z key of an active source
C3_Witness ==
  /\ Feasible
  /\ \E a \in 1..Len(result.points), r \in 1..Len(redAnchors) :
        key01(result.points[a].z) = key01(redAnchors[r].z)

\* C4 as stated: the dfs calls of one invocation that pass the budget test
\* (and record a solution or examine Z levels) never number more than
\* MAX_NODES
C4_ExpansionsWithinBudget == expansions <= MAX_NODES

\* C5: with a non-empty candidates list the generateBluePoints inlined in
\* App returns exactly 5 points, feasible or not
C5_FivePoints ==
  (Returned /\ args.variant = "app" /\ args.candidates # <<>>) => Len(result.points) = 5

\* App's fallback has returned five points for a list of three candidates
C5_Witness ==
  /\ Returned /\ args.variant = "app"
  /\ ~result.feasible
  /\ Len(args.candidates) = 3
  /\ Len(result.points) = 5
  /\ fb.levels = <<4, 4, 4, 4, 4>>

\* C6 as stated: generateBluePoints of hooks/useBluePoints raises no
\* exception, on the solution path and on the fallback path
C6_HookNeverThrows == (args.variant = "hook" /\ AnchorsNumeric) => outcome # "threw"

\* C7: with a non-empty seed and the other inputs fixed, a second invocation
\* returns the feasible flag and the points of the first, whatever the call
\* counter and the clock are
C7_SeededDeterminism ==
  (seeded /\ pc = "done" /\ prev # <<>> /\ prev[1].args = args) =>
    /\ outcome = prev[1].outcome
    /\ result.feasible = prev[1].result.feasible
    /\ result.points = prev[1].result.points

\* a seeded second invocation, with a later clock and the next call counter,
\* has returned a feasible result
C7_Witness ==
  /\ seeded /\ prev # <<>> /\ prev[1].args = args
  /\ Feasible
  /\ prev[1].outcome = "returned"
  /\ genNonce = 1 /\ tick = 2

\* refinePoints has just replaced a point
Replaced == pc = "refine" /\ refine.last # <<>> /\ refine.last[1].new # refine.last[1].old

\* C8: when refinePoints replaces a point, the score scoreMaximin gave the
\* replacement against the four other points is strictly greater than the
\* score it gave the replaced point against the same four
C8_StrictlyBetter == Replaced => refine.last[1].score > refine.last[1].score0

\* a replacement whose pool held more than one candidate
C8_Witness ==
  /\ Replaced
  /\ Len(RefinePool([refine.best EXCEPT ![refine.last[1].i] = refine.last[1].old],
                    refine.last[1].i, args.candidates, redAnchors)) > 1

\* a dfs call has been refused by the budget test and the search still runs
BudgetHit == pc = "search" /\ stack # <<>> /\ nodes > MAX_NODES + 1

\* C9 as stated: once the budget is exceeded no frame filters or ranks a
\* further Z level (the ranking draws from rng) and none calls dfs again
C9_AbortsAtOnce ==
  [][BudgetHit => (rng' = rng /\ Len(stack') <= Len(stack))]_vars

\* the pool is full and the search has not yet unwound
PoolIsFull == pc = "search" /\ Len(solutions) >= MAX_SOL

\* C10: the pool never holds more than MAX_SOL solutions, and once it holds
\* MAX_SOL every step of the search pops a frame: no dfs call, no ranking,
\* until the search has returned
C10_PoolBoundedAndStops ==
  /\ [](Len(solutions) <= MAX_SOL)
  /\ [][PoolIsFull =>
          /\ solutions' = solutions /\ nodes' = nodes /\ rng' = rng
          /\ (stack # <<>> => (stack' = Pop /\ ret' = "true"))]_vars

\* the pool is full with enclosing frames still to return
C10_Witness == PoolIsFull /\ Len(stack) >= 2 /\ ret = "true"

\* a pooled solution has been picked: refinePoints runs or has returned
Picked == pc = "refine" \/ Feasible

\* C11: with a non-empty pool the entry picked is entry 0 when there is a
\* seed and entry (genNonce mod pool size) otherwise, an index within the
\* pool; the points returned are what refinePoints made of that entry
C11_PickedEntry ==
  Picked =>
    /\ refine.idx \in 0..(Len(solutions) - 1)
    /\ (args.seed # <<>> => refine.idx = 0)
    /\ (args.seed = <<>> => refine.idx = genNonce % Len(solutions))
    /\ refine.pts = solutions[refine.idx + 1]
    /\ (Feasible => result.points = refine.best)

\* an unseeded result for a call counter beyond the pool's size: the index
\* has wrapped around to an entry that differs from entry 0
C11_Witness ==
  /\ Feasible
  /\ args.seed = <<>>
  /\ genNonce > Len(solutions)
  /\ refine.idx > 0
  /\ solutions[refine.idx + 1] # solutions[1]

\* p is inside the room's floor plan, a margin away from every wall, from
\* the floor and from the ceiling
WithinMargins(p) ==
  /\ pointInPolygon(p, args.vertices)
  /\ FarFromEdges(p, args.vertices)
  /\ p.z >= MARGIN
  /\ p.z <= args.alturaZ - MARGIN

\* every point of pts is one of the candidates, and within the margins
FromCandidates(pts) ==
  \A p \in Range(pts) : p \in Range(args.candidates) /\ WithinMargins(p)

\* C12: every point of every result -- of a pooled solution, put in by the
\* refinement, chosen at a fallback level or padded -- is one of the
\* candidates supplied, and so at least the margin away from every edge of
\* the polygon, from the floor and from the ceiling
C12_PointsAreCandidates ==
  /\ \A k \in 1..Len(solutions) : FromCandidates(solutions[k])
  /\ FromCandidates(refine.best)
  /\ FromCandidates(fb.chosen)
  /\ FromCandidates(result.points)

\* the fallback has returned five points of the grid built for the 1 x 1 m
\* room, all chosen at its loosest level
C12_Witness ==
  /\ Returned
  /\ ~result.feasible
  /\ args.candidates # <<>>
  /\ args.candidates = candidates(args.vertices, args.alturaZ)
  /\ fb.levels = <<4, 4, 4, 4, 4>>
  /\ Len(result.points) = 5

\* C13: with an empty candidates list generateBluePoints returns at once an
\* empty points list with feasible = false: no search, no fallback
C13_EmptyCandidates ==
  args.candidates = <<>> =>
    /\ pc \in {"ready", "idle", "done"}
    /\ nodes = 0 /\ expansions = 0 /\ stack = <<>> /\ solutions = <<>>
    /\ rng = <<0, 0>> /\ zOptionsByIdx = <<>>
    /\ refine = NoRefine /\ fb = NoFb
    /\ (pc = "done" =>
          outcome = "returned" /\ result = [points |-> <<>>, feasible |-> FALSE])

\* the second call with no candidates has returned
C13_Witness ==
  /\ args.candidates = <<>>
  /\ Returned
  /\ calls = 2
  /\ result.points = <<>> /\ ~result.feasible

\* the arguments a and b differ in the coordinates of an anchor whose active
\* flag is false, and in nothing else
OnlyInactiveMoved(a, b) ==
  /\ a # b
  /\ \/ ~a.f1Active /\ b = [a EXCEPT !.F1 = b.F1]
     \/ ~a.f2Active /\ b = [a EXCEPT !.F2 = b.F2]

\* C14: an inactive anchor has no influence: with a seed, two invocations
\* that differ only in the coordinates of an anchor whose active flag is
\* false end the same way with the same result
C14_InactiveAnchorIgnored ==
  (seeded /\ pc = "done" /\ prev # <<>> /\ OnlyInactiveMoved(prev[1].args, args)) =>
    /\ outcome = prev[1].outcome
    /\ result = prev[1].result

\* a seeded feasible result after an inactive anchor was moved onto a cell
\* one of the returned points stands on
C14_Witness ==
  /\ seeded /\ prev # <<>>
  /\ OnlyInactiveMoved(prev[1].args, args)
  /\ Feasible
  /\ prev[1].outcome = "returned"
  /\ \E p \in Range(result.points) :
       \/ ~args.f1Active /\ key01(p.x) = key01(args.F1.x) /\ key01(p.y) = key01(args.F1.y)
       \/ ~args.f2Active /\ key01(p.x) = key01(args.F2.x) /\ key01(p.y) = key01(args.F2.y)

\* C15: refinePoints returns as many entries as it was given, entry i at the
\* Z key of the input's entry i -- points are replaced in place, none is
\* added, removed or moved to another index -- and the input array is left
\* as it was
C15_RefineInPlace ==
  Picked =>
    /\ Len(refine.best) = Len(refine.pts)
    /\ \A i \in 1..Len(refine.pts) : key01(refine.best[i].z) = key01(refine.pts[i].z)
    /\ refine.pts = solutions[refine.idx + 1]

\* refinePoints has returned with two of the five entries replaced
C15_Witness ==
  /\ Feasible
  /\ Len(refine.pts) = 5
  /\ Cardinality({i \in 1..5 : refine.best[i] # refine.pts[i]}) >= 2

\* the room of 1 x 1 m and 1.2 m height, handled by the generator of App
TinyRoom ==
  /\ args.vertices = Rect(0, 0, 100, 100)
  /\ args.alturaZ = 120
  /\ args.variant = "app"

\* C16: for the 1 x 1 m footprint with height 1.2 m the grid built with
\* margin 0.5 m and step 0.1 m is one cell at three levels, and
\* generateBluePoints called with it returns feasible = false with exactly
\* five points
C16_TinyRoom ==
  TinyRoom =>
    /\ args.candidates = candidates(args.vertices, args.alturaZ)
    /\ args.candidates = Cross(CellsTiny, ZsTiny)
    /\ solutions = <<>>
    /\ (pc = "done" =>
          outcome = "returned" /\ ~result.feasible /\ Len(result.points) = 5)

\* the result for the 1 x 1 m room with no active anchor: the first point
\* passes the strictest fallback level, the other four only the loosest
C16_Witness ==
  /\ TinyRoom
  /\ Returned
  /\ ~args.f1Active /\ ~args.f2Active
  /\ fb.levels = <<1, 4, 4, 4, 4>>
  /\ Len(result.points) = 5

NearestFirst(L, dz) ==
  \A a, b \in 1..Len(L) :
    a < b => ~(10 * Abs(L[b] - dz) + 1 < 10 * Abs(L[a] - dz))

\* the Z preference lists of the call have been drawn
ZListsDrawn == zOptionsByIdx # <<>>

\* C20: the Z preference list of each of the five slots holds every Z level
\* of the candidates exactly once; with a seed no level comes after one that
\* is farther from the slot's target by more than the jitter bound, and
\* without a seed the list is a cyclic rotation of a list ordered like that
C20_ZPreference ==
  ZListsDrawn =>
    /\ Len(zOptionsByIdx) = 5
    /\ \A j \in 1..5 :
         LET L == zOptionsByIdx[j]
             zAll == zLevelsAll(args.candidates)
         IN  /\ Len(L) = Len(zAll)
             /\ Range(L) = Range(zAll)
             /\ (seeded => NearestFirst(L, desiredZ[j]))
             /\ (~seeded => \E rot \in 0..(Len(L) - 1) :
                              NearestFirst(Rotate(L, rot), desiredZ[j]))

\* an unseeded call over five levels: the list of the first slot, whose
\* target has two levels at the same distance, is rotated out of order
C20_Witness ==
  /\ ZListsDrawn
  /\ ~seeded
  /\ Len(zOptionsByIdx[1]) = 5
  /\ ~NearestFirst(zOptionsByIdx[1], desiredZ[1])
  /\ \E j \in 2..5 : NearestFirst(zOptionsByIdx[j], desiredZ[j])

\* the grid of the 3 x 2 m rectangle, 2.5 m high, has been built
RectGridBuilt ==
  /\ geo.built
  /\ geo.vertices = Rect(0, 0, 300, 200)
  /\ geo.alturaZ = 250

\* C17: for the room (0,0),(3,0),(3,2),(0,2) of height 2.5 m the grid builder
\* gives 21 x 11 = 231 XY cells -- every cell of the lattice from 0.5 to 2.5
\* by 0.5 to 1.5 passes the polygon and margin filter --, the 16 Z levels
\* 0.5 .. 2.0 and 3696 candidates
C17_RectangleGrid ==
  RectGridBuilt =>
    /\ Len(geo.xyCells) = 231
    /\ Range(geo.xyCells) = { [x |-> 50 + 10 * i, y |-> 50 + 10 * j] : i \in 0..20, j \in 0..10 }
    /\ geo.zLevels = [k \in 1..16 |-> 50 + 10 * (k - 1)]
    /\ geo.zLevels[16] = 200
    /\ Len(geo.candidates) = 3696
    /\ Range(geo.candidates) =
         { Pt(c.x, c.y, z) : c \in Range(geo.xyCells), z \in Range(geo.zLevels) }

\* the grid of that room is built: the cell in the corner of the lattice,
\* 0.5 m from two walls, at the topmost level is a candidate
C17_Witness ==
  /\ RectGridBuilt
  /\ Pt(250, 150, 200) \in Range(geo.candidates)

\* p lies in the closed convex piece (vertices counter-clockwise)
InPiece(p, piece) ==
  \A i \in 1..Len(piece) :
    LET a == piece[i]
        b == piece[(i % Len(piece)) + 1]
    IN  (b.x - a.x) * (p.y - a.y) - (b.y - a.y) * (p.x - a.x) >= 0

\* p lies on an edge of the polygon or at a vertex
OnBorder(p, poly) ==
  \E i \in 1..Len(poly) :
    LET a == poly[i]
        b == poly[(i % Len(poly)) + 1]
    IN  /\ (b.x - a.x) * (p.y - a.y) - (b.y - a.y) * (p.x - a.x) = 0
        /\ (a.x - p.x) * (b.x - p.x) <= 0
        /\ (a.y - p.y) * (b.y - p.y) <= 0

\* p is strictly inside the floor plan or on its border
InsideOrOnBorder(p) == \E k \in 1..Len(geo.pieces) : InPiece(p, geo.pieces[k])

\* C19: pointInPolygon is true for every point strictly inside the polygon
\* and for every point on its border (on an edge or at a vertex), and false
\* for every point strictly outside
C19_BorderIsInside ==
  geo.probe # <<>> => (geo.inside <=> InsideOrOnBorder(geo.probe[1]))

\* the fallback loop has just placed a point in a slot
SlotFilled == pc = "fallback" /\ Len(fb'.chosen) = Len(fb.chosen) + 1

\* C21: the point the fallback places in a slot passes the strictest of the
\* four filter levels that some candidate passes at that moment: a point
\* that fails level k is placed only when no candidate passes level k
C21_StrictestLevel ==
  [][SlotFilled =>
       LET p == fb'.chosen[Len(fb'.chosen)]
       IN  \A k \in 1..4 :
             ~FbOk(k, p, fb, redAnchors) =>
               \A c \in Range(fb.all) : ~FbOk(k, c, fb, redAnchors)]_vars

\* a fallback over 40 candidates: four slots filled under the full rules,
\* the fifth at the level without the point-point distance, no candidate
\* passing the full rules any more
C21_Witness ==
  /\ pc = "fallback"
  /\ fb.levels = <<1, 1, 1, 1, 2>>
  /\ Len(fb.all) = 40
  /\ \E q \in Range(SubSeq(fb.chosen, 1, 4)) : dist3D(fb.chosen[5], q) < MIN_BLUE_BLUE

\* C27: with a non-empty candidates list every one of the five slots of the
\* fallback is filled inside its loop -- the level that accepts anything
\* always has a match --, so the padding loop adds no point
C27_NoPadding ==
  /\ (pc = "fallback" => Len(fb.chosen) = fb.k /\ Len(fb.levels) = fb.k)
  /\ ((Returned /\ ~result.feasible /\ args.candidates # <<>>) =>
        /\ fb.k = 5
        /\ Len(fb.chosen) = 5
        /\ result.points = fb.chosen)

\* a fallback result over three candidates: four of the five slots were
\* filled at the level that accepts anything
C27_Witness ==
  /\ Returned
  /\ ~result.feasible
  /\ Len(args.candidates) = 3
  /\ fb.levels = <<3, 4, 4, 4, 4>>
  /\ result.points = fb.chosen

\* C28: with no active anchor and no point chosen scoreMaximin is +Infinity
\* for every candidate, whatever the jitter -- the candidates of the first
\* slot all tie --; with an active anchor or a chosen point it is finite
C28_InfiniteFirstScore ==
  geo.call # <<>> =>
    LET k == geo.call[1]
    IN  /\ (k.chosen = <<>> /\ k.anchors = <<>>) => k.score = Infinity
        /\ (k.chosen # <<>> \/ k.anchors # <<>>) => k.score < Infinity
        /\ (k.chosen # <<>> \/ k.anchors # <<>>) =>
              k.score = ScoreBase(k.cand, k.chosen, k.anchors) + Jitter(k.w)

\* a first-slot call with the largest jitter: the score is +Infinity
C28_Witness ==
  /\ geo.call # <<>>
  /\ geo.call[1].chosen = <<>>
  /\ geo.call[1].anchors = <<>>
  /\ geo.call[1].w = <<65535, 65535>>
  /\ Jitter(geo.call[1].w) = 49
  /\ geo.call[1].score = Infinity

C26_PoolDistinct ==
  \A a, b \in 1..Len(solutions) : a # b => solutions[a] # solutions[b]

\* a full pool that holds the same five points in two different orders
C26_Witness ==
  /\ Len(solutions) = MAX_SOL
  /\ \E a, b \in 1..Len(solutions) :
       /\ a # b
       /\ Range(solutions[a]) = Range(solutions[b])

\* C22 as stated: when a generation has completed and undo is the next
\* handler to run, every field of the snapshot (vertices, height, F1, F2, the
\* two active flags, the blue points, blueActive, both ring settings) has the
\* value it had when generate was asked for
C22_UndoRestoresRequest ==
  (app.last = "undoDone" /\ app.asked # <<>>) =>
     takeSnapshot(app) = app.asked[1]

\* C24: at most one timeout of generate is pending, busy is set while it is,
\* and no two pending timeouts hold the same nonce
C24_OneInFlight ==
  /\ Len(app.timers) <= 1
  /\ app.timers # <<>> => app.busy
  /\ \A i, j \in 1..Len(app.timers) :
       i # j => app.timers[i].nonce # app.timers[j].nonce

\* a second generation is pending and another handler has run since it was asked for
C24_Witness ==
  /\ app.busy
  /\ Len(app.timers) = 1
  /\ app.timers[1].nonce = 1
  /\ app.last = "edit"

\* C30 as stated: after undo and then redo the snapshot fields and the two
\* stacks are what they were before the undo
C30_UndoRedo ==
  app.last = "redoUndo" =>
     /\ takeSnapshot(app) = app.pre[1].snap
     /\ app.past = app.pre[1].past
     /\ app.future = app.pre[1].future

\* the keys the sets of a frame hold when nothing but the anchors and its own
\* chosen points has been added
FrameExact(f) ==
  /\ Len(f.chosen) = f.i
  /\ f.usedX = usedX0 \cup { key01(f.chosen[k].x) : k \in 1..Len(f.chosen) }
  /\ f.usedY = usedY0 \cup { key01(f.chosen[k].y) : k \in 1..Len(f.chosen) }
  /\ f.usedZ = { key01(f.chosen[k].z) : k \in 1..Len(f.chosen) }

\* C29: in every frame of dfs, before and after each call of a child, usedX
\* and usedY hold the keys of the active anchors and of the points chosen on
\* the path of the frame, usedZ the Z keys of those points, and no step
\* changes chosen, usedX, usedY or usedZ of a frame that stays on the stack
C29_FramesUntouched ==
  /\ [](pc = "search" => \A k \in 1..Len(stack) : FrameExact(stack[k]))
  /\ [][pc = "search" =>
          \A k \in 1..Len(stack) :
            k <= Len(stack') =>
              /\ stack'[k].chosen = stack[k].chosen
              /\ stack'[k].usedX = stack[k].usedX
              /\ stack'[k].usedY = stack[k].usedY
              /\ stack'[k].usedZ = stack[k].usedZ]_vars

\* a frame at depth 2 goes on with its second candidate after the subtree of
\* the first returned false, with two active anchors
C29_Witness ==
  /\ pc = "search"
  /\ Len(redAnchors) = 2
  /\ Len(stack) = 3
  /\ Top.at = "cloop"
  /\ Top.ci = 2
  /\ ret = "none"
  /\ nodes > 10

\* every rule holds of the points of call k: margins, X and Y keys unique among
\* the points and the active sources, Z keys unique among the points, P-P and
\* F-P minimum distances
RulesHold(k) ==
  LET P == k.pts
      A == (IF k.activeF1 THEN << k.F1 >> ELSE <<>>) \o (IF k.activeF2 THEN << k.F2 >> ELSE <<>>)
      All == A \o P
  IN  /\ \A i \in 1..Len(P) :
           /\ pointInPolygon(P[i], k.vertices)
           /\ FarFromEdges(P[i], k.vertices)
           /\ P[i].z >= MARGIN /\ P[i].z <= k.alturaZ - MARGIN
           /\ \A r \in 1..Len(A) : dist3D(P[i], A[r]) >= MIN_RED_BLUE
      /\ \A i, j \in 1..Len(All) :
           i # j => key01(All[i].x) # key01(All[j].x) /\ key01(All[i].y) # key01(All[j].y)
      /\ \A i, j \in 1..Len(P) :
           i # j => key01(P[i].z) # key01(P[j].z) /\ dist3D(P[i], P[j]) >= MIN_BLUE_BLUE

\* C23 as stated: for points that satisfy every rule buildViolationSummary
\* returns no issue, also when a point has the Z key of an active source
C23_NoIssueWhenRulesHold ==
  (geo.call # <<>> /\ RulesHold(geo.call[1])) => geo.call[1].issues = {}

====
